---------------------------- MODULE Spec2Model ----------------------------
(***************************************************************************)
(* The ReAct agent loop of docs/docs/how-tos/react-agent-from-scratch.ipynb *)
(* (tool_node, call_model, should_continue and the workflow wiring), run   *)
(* by the graph executor.                                                  *)
(*                                                                         *)
(* Messages are records whose field sets follow the message classes: only  *)
(* a model-authored ("ai") message has a tool_calls field, only a          *)
(* tool-result ("tool") message has tool_call_id.  Reading a field a       *)
(* message does not have is Python's AttributeError.                       *)
(***************************************************************************)
EXTENDS Naturals, Sequences, FiniteSets

VARIABLES
    messages,       \* AgentState["messages"], the Conversation State
    node,           \* where the executor stands: start, agent, tools, end
                    \* (fn, should_continue, tool_node: a direct call, SpecFn)
    error,          \* the exception that left the run, or "none"
    route,          \* what should_continue returned last, or "none"
    delta,          \* the "messages" list the last node returned
    invocations,    \* every tool.invoke(...) made so far, in order
    model_input,    \* the list passed to the last model.invoke(...)
    model_output,   \* what the last model.invoke(...) answered or raised
    tools_by_name,  \* the module-level Tool Registry
    yielded,        \* the states the last graph.stream(...) yielded, in order
    checkpoints,    \* the checkpointer's store: thread_id -> saved messages
    configs,        \* the thread_id of every graph.invoke / graph.stream so far
    runs,           \* the graph runs in progress at once: thread_id -> run (SpecThreads)
    tool_list       \* the list tools_by_name is built from: tools (SpecRegistry: any list)

vars == <<messages, node, error, route, delta, invocations, model_input, model_output,
          tools_by_name, yielded, checkpoints, configs, runs, tool_list>>

\* Bounds of the model.
MaxSteps == 2       \* Agent Steps per run (the loop itself has no bound)
MaxCalls == 2       \* Tool Calls per model response
MaxRuns == 2        \* graph.invoke / graph.stream calls on one compiled graph
MaxSlices == 2      \* turns the scheduler gives to other tasks during one run
MaxTools == 3       \* tools in a list the registry is built from (SpecRegistry)

--------------------------------------------------------------------------
\* Message constructors

HumanMessage(content) == [type |-> "human", content |-> content]

SystemMessage(content) == [type |-> "system", content |-> content]

AIMessage(content, tool_calls) ==
    [type |-> "ai", content |-> content, tool_calls |-> tool_calls]

ToolMessage(content, name, tool_call_id) ==
    [type |-> "tool", content |-> content, name |-> name, tool_call_id |-> tool_call_id]

HasAttr(obj, attr) == attr \in DOMAIN obj

Last(seq) == seq[Len(seq)]

--------------------------------------------------------------------------
\* The weather tool and the registry

\* str.lower() on the location strings the model client may send
Lower(s) ==
    CASE s = "San Francisco" -> "san francisco"
      [] s = "SF" -> "sf"
      [] s = "Tokyo" -> "tokyo"
      [] OTHER -> s

\* `sub in s` on lower-cased locations
Contains(sub, s) ==
    \/ sub = s
    \/ sub = "sf" /\ s \in {"sf bay"}
    \/ sub = "san francisco" /\ s \in {"san francisco, ca"}

\* the text of the first return; {U+1F608} stands for its one non-ASCII
\* character, the emoji that ends the sentence
SunnyText == "It's sunny in San Francisco, but you better look out if you're a Gemini {U+1F608}."

\* the f-string of the else branch
NotSureText(location) == "I am not sure what the weather is in " \o location

get_weather(location) ==
    IF \E city \in {"sf", "san francisco"} : Contains(city, Lower(location))
    THEN SunnyText
    ELSE NotSureText(location)

\* tools = [get_weather]
tools == << [name |-> "get_weather", func |-> "get_weather"] >>

\* model.bind_tools(tools): the names the model client is told it may call
BoundToolNames == { tools[i].name : i \in DOMAIN tools }

\* a registry keyed by the class of the tool object instead of its name
BuildRegistry_by_class(ts) ==
    [n \in {"StructuredTool"} |-> ts[Len(ts)]]

\* a registry that keeps the first tool of a name and drops the later ones
BuildRegistry_first_wins(ts) ==
    [n \in {ts[i].name : i \in DOMAIN ts} |->
        ts[CHOOSE i \in DOMAIN ts :
              /\ ts[i].name = n
              /\ \A j \in DOMAIN ts : ts[j].name = n => i <= j]]

\* {tool.name: tool for tool in tools}: a later tool of the same name wins
BuildRegistry(ts) ==
    [n \in {ts[i].name : i \in DOMAIN ts} |->
        ts[CHOOSE i \in DOMAIN ts :
              /\ ts[i].name = n
              /\ \A j \in DOMAIN ts : ts[j].name = n => j <= i]]

\* tool.invoke(args) of a weather tool that raises on a location it does not
\* know instead of answering
ToolInvoke_known_only(tool, args) ==
    IF ~HasAttr(args, "location")
    THEN [raised |-> TRUE, value |-> "ValidationError"]
    ELSE IF get_weather(args.location) = SunnyText
    THEN [raised |-> FALSE, value |-> SunnyText]
    ELSE [raised |-> TRUE, value |-> "AssertionError"]

\* tool.invoke(args): the @tool wrapper checks the arguments against the
\* function's signature (location: str) and raises when they do not fit;
\* otherwise it runs the function body.
ToolInvoke(tool, args) ==
    IF ~HasAttr(args, "location")
    THEN [raised |-> TRUE, value |-> "ValidationError"]
    ELSE [raised |-> FALSE, value |-> get_weather(args.location)]

\* json.dumps with ensure_ascii (its default) writes a character outside ASCII
\* as \uXXXX escapes, a surrogate pair for U+1F608
EscapeNonAscii(s) ==
    IF s = SunnyText
    THEN "It's sunny in San Francisco, but you better look out if you're a Gemini \\ud83d\\ude08."
    ELSE s

\* json.dumps of a str: the escaped text in double quotes
JsonDumps(s) == "\"" \o EscapeNonAscii(s) \o "\""

--------------------------------------------------------------------------
\* What the model client may return

\* name and arguments of a Tool Call: the weather tool with a location it
\* knows, one it does not know, or arguments that do not fit its signature,
\* and "search", a name the registry does not hold
CallChoices ==
    { [name |-> "get_weather", args |-> [location |-> "San Francisco"]],
      [name |-> "get_weather", args |-> [location |-> "Tokyo"]],
      [name |-> "get_weather", args |-> [city |-> "sf"]],
      [name |-> "search", args |-> [query |-> "weather in sf"]] }

IdBases == {0, 1}

ToolCall(id, name, args) == [id |-> id, name |-> name, args |-> args]

\* Tool Calls of one response: identifiers base+1 .. base+n, unique within
\* the message, not across messages. Lists of several calls are numbered
\* from 1; a single call carries 1 or 2, so that the identifiers of two
\* responses may repeat or differ
ToolCallLists ==
    UNION { { [i \in 1..n |-> ToolCall(b + i, c[i].name, c[i].args)] :
                b \in (IF n = 1 THEN IdBases ELSE {0}), c \in [1..n -> CallChoices] }
            : n \in 0..MaxCalls }

ModelResponses == { AIMessage(IF tc = <<>> THEN "final answer" ELSE "", tc) : tc \in ToolCallLists }

\* model.invoke raising (network, timeout, authentication)
ModelClientError == [type |-> "exception", content |-> "ModelClientFailure"]

\* no model call made yet
NoModelOutput == [type |-> "none", content |-> ""]

SystemPromptText == "You are a helpful AI assistant, please respond to the users query to the best of your ability!"

UserInputs == { HumanMessage("what is the weather in sf"), HumanMessage("what is the weather in tokyo") }

--------------------------------------------------------------------------
\* The state the nodes receive, and how a Python call ends

AgentState(msgs) == [messages |-> msgs]

Return(v) == [raised |-> FALSE, value |-> v]

Raise(e) == [raised |-> TRUE, value |-> e]

\* messages: Annotated[Sequence[BaseMessage], add_messages], as the
\* specification states the reducer: concatenation, not replacement
add_messages(left, right) == left \o right

\* a "messages" key declared without a reducer: the update replaces the value
ApplyDelta_overwrite(current, update) == update

\* a channel whose reducer is given the update first and the value second
ApplyDelta_swapped(current, update) == add_messages(update, current)

\* a channel that keeps its value and drops every update
ApplyDelta_discard(current, update) == current

\* The channel of the "messages" key: a returned delta goes through the
\* reducer the annotation names
ApplyDelta(current, update) == add_messages(current, update)

--------------------------------------------------------------------------
\* The nodes and the conditional edge

\* The for loop of tool_node from its i-th Tool Call on. invoked lists the
\* indices of the calls whose tool.invoke(...) was made.
\* ToolMessage(content=json.dumps(tool_result), name=tool_call["name"],
\*             tool_call_id=tool_call["id"])
MakeToolMessage(tool_call, tool_result) ==
    ToolMessage(JsonDumps(tool_result), tool_call.name, tool_call.id)

\* tool_loop with every result given the first call's identifier
RECURSIVE tool_loop_first_id(_, _, _, _)
tool_loop_first_id(tool_calls, i, outputs, invoked) ==
    IF i > Len(tool_calls)
    THEN [raised |-> FALSE, value |-> [messages |-> outputs], invoked |-> invoked]
    ELSE LET tool_call == tool_calls[i] IN
         IF tool_call.name \notin DOMAIN tools_by_name
         THEN [raised |-> TRUE, value |-> "KeyError", invoked |-> invoked]
         ELSE LET tool_result == ToolInvoke(tools_by_name[tool_call.name], tool_call.args) IN
              IF tool_result.raised
              THEN [raised |-> TRUE, value |-> tool_result.value,
                    invoked |-> Append(invoked, i)]
              ELSE tool_loop_first_id(tool_calls, i + 1,
                             Append(outputs,
                                    ToolMessage(JsonDumps(tool_result.value),
                                                tool_call.name, tool_calls[1].id)),
                             Append(invoked, i))

\* tool_loop that passes over a call whose name is not registered
RECURSIVE tool_loop_skip_unknown(_, _, _, _)
tool_loop_skip_unknown(tool_calls, i, outputs, invoked) ==
    IF i > Len(tool_calls)
    THEN [raised |-> FALSE, value |-> [messages |-> outputs], invoked |-> invoked]
    ELSE LET tool_call == tool_calls[i] IN
         IF tool_call.name \notin DOMAIN tools_by_name
         THEN tool_loop_skip_unknown(tool_calls, i + 1, outputs, invoked)
         ELSE LET tool_result == ToolInvoke(tools_by_name[tool_call.name], tool_call.args) IN
              IF tool_result.raised
              THEN [raised |-> TRUE, value |-> tool_result.value,
                    invoked |-> Append(invoked, i)]
              ELSE tool_loop_skip_unknown(tool_calls, i + 1,
                             Append(outputs, MakeToolMessage(tool_call, tool_result.value)),
                             Append(invoked, i))

\* tool_loop that catches a tool's exception, reports it as the call's
\* result and goes on with the next call
RECURSIVE tool_loop_catch(_, _, _, _)
tool_loop_catch(tool_calls, i, outputs, invoked) ==
    IF i > Len(tool_calls)
    THEN [raised |-> FALSE, value |-> [messages |-> outputs], invoked |-> invoked]
    ELSE LET tool_call == tool_calls[i] IN
         IF tool_call.name \notin DOMAIN tools_by_name
         THEN [raised |-> TRUE, value |-> "KeyError", invoked |-> invoked]
         ELSE LET tool_result == ToolInvoke(tools_by_name[tool_call.name], tool_call.args) IN
              tool_loop_catch(tool_calls, i + 1,
                              Append(outputs, MakeToolMessage(tool_call, tool_result.value)),
                              Append(invoked, i))

\* tool_loop that stops at the first call that fails and returns the results
\* gathered so far as the step's delta
RECURSIVE tool_loop_partial(_, _, _, _)
tool_loop_partial(tool_calls, i, outputs, invoked) ==
    IF i > Len(tool_calls)
    THEN [raised |-> FALSE, value |-> [messages |-> outputs], invoked |-> invoked]
    ELSE LET tool_call == tool_calls[i] IN
         IF tool_call.name \notin DOMAIN tools_by_name
         THEN [raised |-> FALSE, value |-> [messages |-> outputs], invoked |-> invoked]
         ELSE LET tool_result == ToolInvoke(tools_by_name[tool_call.name], tool_call.args) IN
              IF tool_result.raised
              THEN [raised |-> FALSE, value |-> [messages |-> outputs],
                    invoked |-> Append(invoked, i)]
              ELSE tool_loop_partial(tool_calls, i + 1,
                                     Append(outputs, MakeToolMessage(tool_call, tool_result.value)),
                                     Append(invoked, i))

\* tool_loop that walks the list of calls from its last call to its first
RECURSIVE tool_loop_reversed(_, _, _, _)
tool_loop_reversed(tool_calls, i, outputs, invoked) ==
    IF i > Len(tool_calls)
    THEN [raised |-> FALSE, value |-> [messages |-> outputs], invoked |-> invoked]
    ELSE LET at        == Len(tool_calls) + 1 - i
             tool_call == tool_calls[at]
         IN
         IF tool_call.name \notin DOMAIN tools_by_name
         THEN [raised |-> TRUE, value |-> "KeyError", invoked |-> invoked]
         ELSE LET tool_result == ToolInvoke(tools_by_name[tool_call.name], tool_call.args) IN
              IF tool_result.raised
              THEN [raised |-> TRUE, value |-> tool_result.value,
                    invoked |-> Append(invoked, at)]
              ELSE tool_loop_reversed(tool_calls, i + 1,
                                      Append(outputs, MakeToolMessage(tool_call, tool_result.value)),
                                      Append(invoked, at))

\* tool_loop that invokes every tool on the arguments of the first call
RECURSIVE tool_loop_first_args(_, _, _, _)
tool_loop_first_args(tool_calls, i, outputs, invoked) ==
    IF i > Len(tool_calls)
    THEN [raised |-> FALSE, value |-> [messages |-> outputs], invoked |-> invoked]
    ELSE LET tool_call == tool_calls[i] IN
         IF tool_call.name \notin DOMAIN tools_by_name
         THEN [raised |-> TRUE, value |-> "KeyError", invoked |-> invoked]
         ELSE LET tool_result == ToolInvoke(tools_by_name[tool_call.name], tool_calls[1].args) IN
              IF tool_result.raised
              THEN [raised |-> TRUE, value |-> tool_result.value,
                    invoked |-> Append(invoked, i)]
              ELSE tool_loop_first_args(tool_calls, i + 1,
                                        Append(outputs, MakeToolMessage(tool_call, tool_result.value)),
                                        Append(invoked, i))

\* tool_loop that puts each new tool message in front of the ones it has
RECURSIVE tool_loop_prepend(_, _, _, _)
tool_loop_prepend(tool_calls, i, outputs, invoked) ==
    IF i > Len(tool_calls)
    THEN [raised |-> FALSE, value |-> [messages |-> outputs], invoked |-> invoked]
    ELSE LET tool_call == tool_calls[i] IN
         IF tool_call.name \notin DOMAIN tools_by_name
         THEN [raised |-> TRUE, value |-> "KeyError", invoked |-> invoked]
         ELSE LET tool_result == ToolInvoke(tools_by_name[tool_call.name], tool_call.args) IN
              IF tool_result.raised
              THEN [raised |-> TRUE, value |-> tool_result.value,
                    invoked |-> Append(invoked, i)]
              ELSE tool_loop_prepend(tool_calls, i + 1,
                                     <<MakeToolMessage(tool_call, tool_result.value)>> \o outputs,
                                     Append(invoked, i))

\* tool_loop that appends the ToolMessage of each call twice
RECURSIVE tool_loop_double(_, _, _, _)
tool_loop_double(tool_calls, i, outputs, invoked) ==
    IF i > Len(tool_calls)
    THEN [raised |-> FALSE, value |-> [messages |-> outputs], invoked |-> invoked]
    ELSE LET tool_call == tool_calls[i] IN
         IF tool_call.name \notin DOMAIN tools_by_name
         THEN [raised |-> TRUE, value |-> "KeyError", invoked |-> invoked]
         ELSE LET tool_result == ToolInvoke(tools_by_name[tool_call.name], tool_call.args) IN
              IF tool_result.raised
              THEN [raised |-> TRUE, value |-> tool_result.value,
                    invoked |-> Append(invoked, i)]
              ELSE tool_loop_double(tool_calls, i + 1,
                                    outputs \o << MakeToolMessage(tool_call, tool_result.value),
                                                  MakeToolMessage(tool_call, tool_result.value) >>,
                                    Append(invoked, i))

\* tool_loop that looks up the tools of all calls before it invokes the first
RECURSIVE tool_loop_validate_first(_, _, _, _)
tool_loop_validate_first(tool_calls, i, outputs, invoked) ==
    IF i > Len(tool_calls)
    THEN [raised |-> FALSE, value |-> [messages |-> outputs], invoked |-> invoked]
    ELSE IF \E j \in DOMAIN tool_calls : tool_calls[j].name \notin DOMAIN tools_by_name
    THEN [raised |-> TRUE, value |-> "KeyError", invoked |-> invoked]
    ELSE LET tool_call   == tool_calls[i]
             tool_result == ToolInvoke(tools_by_name[tool_call.name], tool_call.args)
         IN  IF tool_result.raised
             THEN [raised |-> TRUE, value |-> tool_result.value,
                   invoked |-> Append(invoked, i)]
             ELSE tool_loop_validate_first(tool_calls, i + 1,
                                           Append(outputs, MakeToolMessage(tool_call, tool_result.value)),
                                           Append(invoked, i))

RECURSIVE tool_loop(_, _, _, _)
tool_loop(tool_calls, i, outputs, invoked) ==
    IF i > Len(tool_calls)
    THEN [raised |-> FALSE, value |-> [messages |-> outputs], invoked |-> invoked]
    ELSE LET tool_call == tool_calls[i] IN
         IF tool_call.name \notin DOMAIN tools_by_name
         THEN [raised |-> TRUE, value |-> "KeyError", invoked |-> invoked]
         ELSE LET tool_result == ToolInvoke(tools_by_name[tool_call.name], tool_call.args) IN
              IF tool_result.raised
              THEN [raised |-> TRUE, value |-> tool_result.value,
                    invoked |-> Append(invoked, i)]
              ELSE tool_loop(tool_calls, i + 1,
                             Append(outputs, MakeToolMessage(tool_call, tool_result.value)),
                             Append(invoked, i))

\* tool_node reading state["messages"][1] in place of state["messages"][-1]
tool_node_index_1(state) ==
    IF Len(state.messages) < 2
    THEN [raised |-> TRUE, value |-> "IndexError", invoked |-> <<>>]
    ELSE IF ~HasAttr(state.messages[2], "tool_calls")
    THEN [raised |-> TRUE, value |-> "AttributeError", invoked |-> <<>>]
    ELSE tool_loop(state.messages[2].tool_calls, 1, <<>>, <<>>)

\* the Tool Calls of every message of the list, in order
RECURSIVE AllToolCalls(_)
AllToolCalls(msgs) ==
    IF msgs = <<>> THEN <<>>
    ELSE (IF HasAttr(Head(msgs), "tool_calls") THEN Head(msgs).tool_calls ELSE <<>>)
            \o AllToolCalls(Tail(msgs))

\* tool_node looping over the Tool Calls of all messages of the state
tool_node_all_messages(state) ==
    IF state.messages = <<>>
    THEN [raised |-> TRUE, value |-> "IndexError", invoked |-> <<>>]
    ELSE tool_loop(AllToolCalls(state.messages), 1, <<>>, <<>>)

\* tool_node taking the Tool Calls of the newest message that carries any,
\* when the final message carries none
tool_node_latest_with_calls(state) ==
    IF state.messages = <<>>
    THEN [raised |-> TRUE, value |-> "IndexError", invoked |-> <<>>]
    ELSE IF ~HasAttr(Last(state.messages), "tool_calls")
    THEN [raised |-> TRUE, value |-> "AttributeError", invoked |-> <<>>]
    ELSE LET with_calls == { p \in DOMAIN state.messages :
                               /\ HasAttr(state.messages[p], "tool_calls")
                               /\ state.messages[p].tool_calls # <<>> }
         IN  IF with_calls = {}
             THEN tool_loop(<<>>, 1, <<>>, <<>>)
             ELSE tool_loop(state.messages[CHOOSE p \in with_calls :
                                              \A q \in with_calls : q <= p].tool_calls,
                            1, <<>>, <<>>)

tool_node(state) ==
    IF state.messages = <<>>
    THEN [raised |-> TRUE, value |-> "IndexError", invoked |-> <<>>]
    ELSE IF ~HasAttr(Last(state.messages), "tool_calls")
    THEN [raised |-> TRUE, value |-> "AttributeError", invoked |-> <<>>]
    ELSE tool_loop(Last(state.messages).tool_calls, 1, <<>>, <<>>)

\* tool_node taking each tool it looks up out of the registry
\* (tools_by_name.pop(name) for tools_by_name[name])
tool_node_registry_pop(registry, state) ==
    IF state.messages = <<>> \/ ~HasAttr(Last(state.messages), "tool_calls")
    THEN registry
    ELSE LET tool_calls == Last(state.messages).tool_calls
             looked_up  == { tool_calls[i].name : i \in DOMAIN tool_calls }
         IN  [name \in (DOMAIN registry) \ looked_up |-> registry[name]]

\* the registry as a run of tool_node leaves it: tools_by_name is only
\* subscripted there, never assigned, extended or shrunk
tool_node_registry(registry, state) == registry

\* call_model returning the whole list it holds with the response added
call_model_whole_list(state, response) ==
    LET system_prompt == SystemMessage(SystemPromptText) IN
    IF response.type = "exception"
    THEN [input |-> <<system_prompt>> \o state.messages,
          raised |-> TRUE, value |-> response.content]
    ELSE [input |-> <<system_prompt>> \o state.messages,
          raised |-> FALSE, value |-> [messages |-> state.messages \o <<response>>]]

\* call_model returning the system prompt together with the response
call_model_returns_prompt(state, response) ==
    LET system_prompt == SystemMessage(SystemPromptText) IN
    IF response.type = "exception"
    THEN [input |-> <<system_prompt>> \o state.messages,
          raised |-> TRUE, value |-> response.content]
    ELSE [input |-> <<system_prompt>> \o state.messages,
          raised |-> FALSE, value |-> [messages |-> <<system_prompt, response>>]]

\* call_model catching the model client's exception and calling it again,
\* the second call answering
call_model_retry(state, response) ==
    LET system_prompt == SystemMessage(SystemPromptText) IN
    [input |-> <<system_prompt>> \o state.messages,
     raised |-> FALSE,
     value |-> [messages |-> <<IF response.type = "exception"
                               THEN AIMessage("final answer", <<>>)
                               ELSE response>>]]

\* call_model passing the system prompt and only the newest message
call_model_last_message(state, response) ==
    LET system_prompt == SystemMessage(SystemPromptText)
        newest == IF state.messages = <<>> THEN <<>> ELSE <<Last(state.messages)>>
    IN
    IF response.type = "exception"
    THEN [input |-> <<system_prompt>> \o newest,
          raised |-> TRUE, value |-> response.content]
    ELSE [input |-> <<system_prompt>> \o newest,
          raised |-> FALSE, value |-> [messages |-> <<response>>]]

\* call_model, given what model.invoke answers or raises: input is the list
\* it passes; an exception of model.invoke is not caught
call_model(state, response) ==
    LET system_prompt == SystemMessage(SystemPromptText) IN
    IF response.type = "exception"
    THEN [input |-> <<system_prompt>> \o state.messages,
          raised |-> TRUE, value |-> response.content]
    ELSE [input |-> <<system_prompt>> \o state.messages,
          raised |-> FALSE, value |-> [messages |-> <<response>>]]

\* should_continue with the test inverted
should_continue_inverted(state) ==
    IF state.messages = <<>>
    THEN Raise("IndexError")
    ELSE LET last_message == Last(state.messages) IN
         IF ~HasAttr(last_message, "tool_calls")
         THEN Raise("AttributeError")
         ELSE IF last_message.tool_calls # <<>>
         THEN Return("end")
         ELSE Return("continue")

\* should_continue looking for Tool Calls in every message of the state
should_continue_any_message(state) ==
    IF state.messages = <<>>
    THEN Raise("IndexError")
    ELSE LET last_message == Last(state.messages) IN
         IF ~HasAttr(last_message, "tool_calls")
         THEN Raise("AttributeError")
         ELSE IF \A i \in DOMAIN state.messages :
                    HasAttr(state.messages[i], "tool_calls") => state.messages[i].tool_calls = <<>>
         THEN Return("end")
         ELSE Return("continue")

\* should_continue ending the run once the state holds four messages,
\* whatever the final message carries
should_continue_capped(state) ==
    IF state.messages = <<>>
    THEN Raise("IndexError")
    ELSE LET last_message == Last(state.messages) IN
         IF ~HasAttr(last_message, "tool_calls")
         THEN Raise("AttributeError")
         ELSE IF last_message.tool_calls = <<>> \/ Len(state.messages) >= 4
         THEN Return("end")
         ELSE Return("continue")

should_continue(state) ==
    IF state.messages = <<>>
    THEN Raise("IndexError")
    ELSE LET last_message == Last(state.messages) IN
         IF ~HasAttr(last_message, "tool_calls")
         THEN Raise("AttributeError")
         ELSE IF last_message.tool_calls = <<>>
         THEN Return("end")
         ELSE Return("continue")

--------------------------------------------------------------------------
\* The workflow

\* the entry point set to the tools node
EntryPoint_tools == "tools"

\* workflow.set_entry_point("agent")
EntryPoint == "agent"

\* the mapping with its two targets exchanged
ConditionalEdges_swapped(label) == IF label = "continue" THEN "end" ELSE "tools"

\* a mapping that sends both labels to END
ConditionalEdges_all_end(label) == "end"

\* the mapping given to add_conditional_edges; END is "end"
ConditionalEdges(label) == IF label = "continue" THEN "tools" ELSE "end"

\* the edge out of "tools" drawn to END
Edge_to_end(from) == IF from = "tools" THEN "end" ELSE from

\* workflow.add_edge("tools", "agent")
Edge(from) == IF from = "tools" THEN "agent" ELSE from

NumAI(msgs) == Cardinality({i \in DOMAIN msgs : msgs[i].type = "ai"})

Init ==
    /\ messages = <<>>
    /\ node = "start"
    /\ error = "none"
    /\ route = "none"
    /\ delta = <<>>
    /\ invocations = <<>>
    /\ model_input = <<>>
    /\ model_output = NoModelOutput
    /\ tools_by_name = BuildRegistry(tools)
    /\ yielded = <<>>
    /\ checkpoints = <<>>
    /\ configs = <<>>
    /\ runs = <<>>
    /\ tool_list = tools

\* graph.stream(inputs) / graph.invoke(inputs): the input is written to the
\* state and the entry point is scheduled
Invoke ==
    /\ node = "start" /\ error = "none"
    /\ \E m \in UserInputs :
          /\ messages' = ApplyDelta(messages, <<m>>)
          /\ delta' = <<m>>
    /\ node' = EntryPoint
    /\ UNCHANGED <<runs, tool_list, error, route, invocations, model_input, model_output, tools_by_name,
                   yielded, checkpoints, configs>>

\* The "agent" node runs with the model client answering `response`: its
\* delta is applied and the conditional edge routes; an exception ends the
\* run with nothing written
AgentRun(response) ==
    LET out == call_model(AgentState(messages), response) IN
    /\ model_input' = out.input
    /\ model_output' = response
    /\ IF out.raised
       THEN /\ error' = out.value
            /\ UNCHANGED <<messages, node, route, delta>>
       ELSE LET new == ApplyDelta(messages, out.value.messages)
                r   == should_continue(AgentState(new))
            IN  /\ delta' = out.value.messages
                /\ messages' = new
                /\ IF r.raised
                   THEN /\ error' = r.value
                        /\ UNCHANGED <<node, route>>
                   ELSE /\ route' = r.value
                        /\ node' = ConditionalEdges(r.value)
                        /\ UNCHANGED error
    /\ UNCHANGED <<runs, tool_list, invocations, tools_by_name,
                   yielded, checkpoints, configs>>

\* an Agent Step in which the model client answers
AgentStep ==
    /\ node = "agent" /\ error = "none"
    /\ NumAI(messages) < MaxSteps
    /\ \E response \in ModelResponses : AgentRun(response)

\* an Agent Step in which model.invoke raises
AgentFail ==
    /\ node = "agent" /\ error = "none"
    /\ NumAI(messages) < MaxSteps
    /\ AgentRun(ModelClientError)

Tag(at, invoked) == [k \in DOMAIN invoked |-> [at |-> at, index |-> invoked[k]]]

\* The "tools" node runs; on return its delta is applied and the edge to
\* "agent" is taken, on an exception the run ends with nothing written
ToolsStep ==
    /\ node = "tools" /\ error = "none"
    /\ LET out == tool_node(AgentState(messages)) IN
          /\ invocations' = invocations \o Tag(Len(messages), out.invoked)
          /\ IF out.raised
             THEN /\ error' = out.value
                  /\ UNCHANGED <<messages, node, delta>>
             ELSE /\ delta' = out.value.messages
                  /\ messages' = ApplyDelta(messages, out.value.messages)
                  /\ node' = Edge(node)
                  /\ UNCHANGED error
    /\ tools_by_name' = tool_node_registry(tools_by_name, AgentState(messages))
    /\ UNCHANGED <<runs, tool_list, route, model_input, model_output,
                   yielded, checkpoints, configs>>

Next == Invoke \/ AgentStep \/ AgentFail \/ ToolsStep

Spec == Init /\ [][Next]_vars

--------------------------------------------------------------------------
\* The three functions called directly on arbitrary Conversation States

\* what may stand before the final message
PriorMessages ==
    { HumanMessage("what is the weather in sf"),
      AIMessage("", <<ToolCall(1, "get_weather", [location |-> "San Francisco"])>>),
      AIMessage("final answer", <<>>),
      ToolMessage(JsonDumps(SunnyText), "get_weather", 1) }

FinalMessages ==
    UserInputs \cup ModelResponses
        \cup { ToolMessage(JsonDumps(SunnyText), "get_weather", 1) }

FnStates ==
    {<<>>} \cup { <<m>> : m \in FinalMessages }
           \cup { <<p, m>> : p \in PriorMessages, m \in FinalMessages }

\* the answers given to a direct call of call_model
FnResponses == { r \in ModelResponses : Len(r.tool_calls) <= 1 }

InitFn ==
    /\ messages \in FnStates
    /\ node = "fn"
    /\ error = "none"
    /\ route = "none"
    /\ delta = <<>>
    /\ invocations = <<>>
    /\ model_input = <<>>
    /\ model_output = NoModelOutput
    /\ tools_by_name = BuildRegistry(tools)
    /\ yielded = <<>>
    /\ checkpoints = <<>>
    /\ configs = <<>>
    /\ runs = <<>>
    /\ tool_list = tools

FnShouldContinue ==
    /\ node = "fn"
    /\ LET r == should_continue(AgentState(messages)) IN
          /\ route' = IF r.raised THEN "none" ELSE r.value
          /\ error' = IF r.raised THEN r.value ELSE "none"
    /\ node' = "should_continue"
    /\ UNCHANGED <<runs, tool_list, messages, delta, invocations, model_input, model_output, tools_by_name,
                   yielded, checkpoints, configs>>

FnToolNode ==
    /\ node = "fn"
    /\ LET out == tool_node(AgentState(messages)) IN
          /\ delta' = IF out.raised THEN <<>> ELSE out.value.messages
          /\ error' = IF out.raised THEN out.value ELSE "none"
          /\ invocations' = Tag(Len(messages), out.invoked)
    /\ node' = "tool_node"
    /\ tools_by_name' = tool_node_registry(tools_by_name, AgentState(messages))
    /\ UNCHANGED <<runs, tool_list, messages, route, model_input, model_output,
                   yielded, checkpoints, configs>>

FnCallModel ==
    /\ node = "fn"
    /\ \E response \in FnResponses :
          LET out == call_model(AgentState(messages), response) IN
              /\ delta' = out.value.messages
              /\ model_input' = out.input
              /\ model_output' = response
    /\ node' = "call_model"
    /\ UNCHANGED <<runs, tool_list, messages, error, route, invocations, tools_by_name,
                   yielded, checkpoints, configs>>

NextFn == FnShouldContinue \/ FnToolNode \/ FnCallModel

SpecFn == InitFn /\ [][NextFn]_vars

--------------------------------------------------------------------------
\* Properties

IsModelAuthored(m) == m.type = "ai"

\* the final message is model-authored and carries at least one Tool Call
EndsWithToolCalls(msgs) ==
    /\ msgs # <<>>
    /\ IsModelAuthored(Last(msgs))
    /\ Len(Last(msgs).tool_calls) >= 1

\* C1 as stated: for every Conversation State, should_continue returns
\* "continue" if the final message is model-authored with at least one Tool
\* Call and returns "end" for every other state.
C1_AsStated ==
    (node = "should_continue" /\ messages # <<>>) =>
        route = (IF EndsWithToolCalls(messages) THEN "continue" ELSE "end")

\* C1: when the final message is model-authored, should_continue returns
\* "continue" iff it carries at least one Tool Call and "end" otherwise;
\* when the final message is human-authored or a tool result (no tool_calls
\* attribute) or the state is empty, it returns no label but raises.
C1_ShouldContinue ==
    node = "should_continue" =>
        /\ (route = "continue") <=> EndsWithToolCalls(messages)
        /\ (route = "end") <=>
              (messages # <<>> /\ IsModelAuthored(Last(messages))
                  /\ Len(Last(messages).tool_calls) = 0)
        /\ (messages # <<>> /\ ~IsModelAuthored(Last(messages))) =>
              (route = "none" /\ error = "AttributeError")
        /\ (messages = <<>>) => (route = "none" /\ error = "IndexError")

C1_Witness ==
    /\ node = "should_continue"
    /\ route = "continue"
    /\ Len(messages) = 2
    /\ Len(Last(messages).tool_calls) = MaxCalls

\* every call names a registered tool and no capability raises
AllCallsSucceed(tool_calls) ==
    \A i \in DOMAIN tool_calls :
        /\ tool_calls[i].name \in DOMAIN tools_by_name
        /\ "location" \in DOMAIN tool_calls[i].args

\* C2: called on a state whose final message is model-authored with Tool
\* Calls c1..cn, n >= 0 (all registered, none raising), tool_node returns exactly n
\* tool-result messages, the i-th carrying the identifier of ci, and leaves
\* the messages of the state as they were.
C2_ToolNodeDelta ==
    [][ ( /\ node = "fn" /\ node' = "tool_node"
          /\ messages # <<>>
          /\ IsModelAuthored(Last(messages))
          /\ AllCallsSucceed(Last(messages).tool_calls) )
        => /\ error' = "none"
           /\ Len(delta') = Len(Last(messages).tool_calls)
           /\ \A i \in DOMAIN delta' :
                 /\ delta'[i].type = "tool"
                 /\ delta'[i].tool_call_id = Last(messages).tool_calls[i].id
           /\ messages' = messages ]_vars

C2_Witness ==
    /\ node = "tool_node"
    /\ error = "none"
    /\ Len(messages) = 2
    /\ Len(delta) = 2
    /\ delta[1].tool_call_id # delta[2].tool_call_id
    /\ delta[1].name = delta[2].name

\* C3: the executor moves only Start -> Agent, Agent -> Tools (exactly when
\* should_continue returned "continue"), Agent -> End (exactly when it
\* returned "end") and Tools -> Agent; a step that completes at Start or at
\* Tools always goes to Agent.
C3_Transitions ==
    [][ /\ (node' # node) =>
              \/ node = "start" /\ node' = "agent"
              \/ node = "agent" /\ node' = "tools" /\ EndsWithToolCalls(messages')
              \/ node = "agent" /\ node' = "end" /\ ~EndsWithToolCalls(messages')
              \/ node = "tools" /\ node' = "agent"
        /\ (node = "agent" /\ messages' # messages /\ error' = "none") =>
              /\ route' \in {"continue", "end"}
              /\ (route' = "continue") <=> (node' = "tools")
              /\ (route' = "end") <=> (node' = "end")
        /\ (node = "start" /\ messages' # messages) => node' = "agent"
        /\ (node = "tools" /\ messages' # messages) => node' = "agent" ]_vars

C3_Witness ==
    /\ node = "end"
    /\ error = "none"
    /\ Len(messages) >= 4
    /\ \E i \in DOMAIN messages : messages[i].type = "tool"

IsPrefix(s, t) == Len(s) <= Len(t) /\ SubSeq(t, 1, Len(s)) = s

\* C4: every step leaves the Conversation State it found as a prefix of the
\* Conversation State it leaves: messages are appended, never reordered,
\* edited or removed.
C4_AppendOnly == [][IsPrefix(messages, messages')]_vars

C4_Witness ==
    /\ node = "agent"
    /\ Len(messages) >= 4
    /\ messages[2].type = "ai"
    /\ messages[3].type = "tool"

\* position of the nearest model-authored message before position q, or 0
NearestAI(msgs, q) ==
    LET before == {p \in 1..(q - 1) : msgs[p].type = "ai"} IN
    IF before = {} THEN 0
    ELSE CHOOSE p \in before : \A r \in before : r <= p

\* C5: every tool-result message carries the identifier of a Tool Call of the
\* nearest model-authored message before it.
C5_ResultAnswersNearestAI ==
    \A q \in DOMAIN messages :
        messages[q].type = "tool" =>
            LET p == NearestAI(messages, q) IN
            /\ p > 0
            /\ \E i \in DOMAIN messages[p].tool_calls :
                  messages[p].tool_calls[i].id = messages[q].tool_call_id

\* two model responses with disjoint identifiers, each answered
C5_Witness ==
    /\ Len(messages) >= 5
    /\ messages[2].type = "ai" /\ messages[3].type = "tool"
    /\ messages[4].type = "ai" /\ messages[5].type = "tool"
    /\ messages[2].tool_calls[1].id = 1
    /\ messages[4].tool_calls[1].id = 2

\* how often tool.invoke was made for call i of the message at position p
TimesInvoked(p, i) ==
    Cardinality({k \in DOMAIN invocations : invocations[k] = [at |-> p, index |-> i]})

\* how many tool-result messages answer call i of the message at position p
TimesAnswered(p, i) ==
    Cardinality({q \in DOMAIN messages :
                    /\ messages[q].type = "tool"
                    /\ NearestAI(messages, q) = p
                    /\ messages[q].tool_call_id = messages[p].tool_calls[i].id})

\* C6: in a run that has not failed, every Tool Call of a model response the
\* Tool Dispatch Step has handled was invoked exactly once and is answered by
\* exactly one tool-result message, however many iterations followed; a call
\* not yet dispatched was invoked and answered zero times.
C6_ConsumedExactlyOnce ==
    error = "none" =>
        \A p \in DOMAIN messages :
            messages[p].type = "ai" =>
                \A i \in DOMAIN messages[p].tool_calls :
                    LET n == IF p < Len(messages) THEN 1 ELSE 0 IN
                    /\ TimesInvoked(p, i) = n
                    /\ TimesAnswered(p, i) = n

\* a call dispatched in the first iteration, with a second iteration after it
C6_Witness ==
    /\ error = "none"
    /\ node = "agent"
    /\ Len(messages) >= 6
    /\ messages[2].type = "ai" /\ messages[4].type = "ai"
    /\ TimesInvoked(2, 1) = 1 /\ TimesAnswered(2, 1) = 1
    /\ TimesInvoked(4, 2) = 1

\* C7: an Agent Step that succeeds returns a delta of exactly one message, a
\* model-authored one, and the Conversation State grows by exactly that
\* message.
C7_AgentStepDelta ==
    [][ (node = "agent" /\ (messages' # messages \/ delta' # delta)) =>
            /\ Len(delta') = 1
            /\ delta'[1] \in ModelResponses
            /\ Len(messages') = Len(messages) + 1
            /\ Last(messages') = delta'[1]
            /\ SubSeq(messages', 1, Len(messages)) = messages ]_vars

C7_Witness ==
    /\ node = "tools"
    /\ Len(messages) = 5
    /\ delta = <<Last(messages)>>
    /\ Last(messages).type = "ai"

\* C8: no Conversation State holds the system instruction, and the list
\* given to the model client holds it exactly once, as its first element.
C8_SystemPromptNotPersisted ==
    /\ \A i \in DOMAIN messages : messages[i].type # "system"
    /\ model_input # <<>> =>
          /\ model_input[1] = SystemMessage(SystemPromptText)
          /\ \A i \in 2..Len(model_input) : model_input[i].type # "system"

\* the second model call of a run has been made
C8_Witness ==
    /\ Len(model_input) >= 4
    /\ model_input[1].type = "system"
    /\ Len(messages) >= 4
    /\ node \in {"tools", "end"}

\* some call of the list names a tool the registry does not hold
--------------------------------------------------------------------------
\* The compiled graph called through its interface, with a checkpointer

\* the thread_id values of the run configurations
ThreadIds == {"1", "2"}

\* what the model client answers in one run: responses with a Tool Call,
\* closed by a response without Tool Calls or by an exception
ApiCallResponses ==
    { AIMessage("", <<ToolCall(1, "get_weather", [location |-> "San Francisco"])>>),
      AIMessage("", <<ToolCall(1, "search", [query |-> "weather in sf"])>>) }

Scripts ==
    UNION { { pre \o <<last>> :
                pre \in [1..k -> ApiCallResponses],
                last \in {AIMessage("final answer", <<>>), ModelClientError} }
            : k \in 0..(MaxSteps - 1) }

\* the loop run from node `at` on msgs until END or an exception: messages is
\* the state after the last completed step, yielded the states after each
\* completed step
RECURSIVE RunGraph(_, _, _, _)
RunGraph(at, msgs, script, yields) ==
    IF at = "agent"
    THEN LET out == call_model(AgentState(msgs), Head(script)) IN
         IF out.raised
         THEN [raised |-> TRUE, error |-> out.value, messages |-> msgs, yielded |-> yields]
         ELSE LET new == ApplyDelta(msgs, out.value.messages)
                  r   == should_continue(AgentState(new))
              IN  IF r.raised
                  THEN [raised |-> TRUE, error |-> r.value, messages |-> new,
                        yielded |-> Append(yields, new)]
                  ELSE RunGraph(ConditionalEdges(r.value), new, Tail(script),
                                Append(yields, new))
    ELSE IF at = "tools"
    THEN LET out == tool_node(AgentState(msgs)) IN
         IF out.raised
         THEN [raised |-> TRUE, error |-> out.value, messages |-> msgs, yielded |-> yields]
         ELSE LET new == ApplyDelta(msgs, out.value.messages) IN
              RunGraph(Edge(at), new, script, Append(yields, new))
    ELSE [raised |-> FALSE, error |-> "none", messages |-> msgs, yielded |-> yields]

\* a configuration that names thread "1" whatever the run
RunConfig_one_thread(thread_id) == [configurable |-> [thread_id |-> "1"]]

\* config = {"configurable": {"thread_id": ...}}
RunConfig(thread_id) == [configurable |-> [thread_id |-> thread_id]]

\* checkpointer.get_tuple(config): the checkpoint saved last for the
\* config's thread, or None
get_tuple(store, config) ==
    IF config.configurable.thread_id \in DOMAIN store
    THEN [found |-> TRUE, messages |-> store[config.configurable.thread_id]]
    ELSE [found |-> FALSE, messages |-> <<>>]

\* the checkpointer saving the state of the config's thread
put_checkpoint(store, config, msgs) ==
    [t \in (DOMAIN store) \cup {config.configurable.thread_id} |->
        IF t = config.configurable.thread_id THEN msgs ELSE store[t]]

\* the state a run of thread_id starts from: the thread's checkpoint, if
\* any, with the input merged in
StartRun(thread_id, input) ==
    LET restored == get_tuple(checkpoints, RunConfig(thread_id)) IN
    ApplyDelta(IF restored.found THEN restored.messages ELSE <<>>, <<input>>)

\* one call of the compiled graph with config {"thread_id": thread_id}:
\* messages is the state the run ends with (what invoke returns), the
\* checkpointer holds the state after the last completed step
GraphRun(thread_id, input, script, streaming) ==
    LET first == StartRun(thread_id, input)
        run   == RunGraph(EntryPoint, first, script, <<first>>)
    IN  /\ messages' = run.messages
        /\ error' = run.error
        /\ yielded' = IF streaming THEN run.yielded ELSE <<>>
        /\ checkpoints' = put_checkpoint(checkpoints, RunConfig(thread_id), run.messages)
        /\ configs' = Append(configs, thread_id)
        /\ node' = IF streaming THEN "stream" ELSE "invoke"
        /\ UNCHANGED <<runs, tool_list, route, delta, invocations, model_input, model_output, tools_by_name>>

\* graph.invoke(inputs, config)
GraphInvoke ==
    /\ Len(configs) < MaxRuns
    /\ \E thread_id \in ThreadIds, input \in UserInputs, script \in Scripts :
          GraphRun(thread_id, input, script, FALSE)

\* graph.stream(inputs, config, stream_mode="values"), consumed to its end
GraphStream ==
    /\ Len(configs) < MaxRuns
    /\ \E thread_id \in ThreadIds, input \in UserInputs, script \in Scripts :
          GraphRun(thread_id, input, script, TRUE)

NextApi == GraphInvoke \/ GraphStream

SpecApi == Init /\ [][NextApi]_vars

--------------------------------------------------------------------------
\* Runs of the compiled graph on different thread_ids, in progress at the
\* same time on one checkpointer: each step of a run is one action, and the
\* steps of the runs interleave in every order. A run holds its own state
\* and the checkpointer saves it, under the run's config, after every step.

\* a run as it is created by graph.invoke(inputs, config)
NewRun(thread_id, input, script) ==
    [ node     |-> EntryPoint,
      messages |-> StartRun(thread_id, input),
      script   |-> script,
      input    |-> input,
      appended |-> <<>>,
      error    |-> "none" ]

\* the run after the step its node stands for
RunStep(run) ==
    IF run.node = "agent"
    THEN LET out == call_model(AgentState(run.messages), Head(run.script)) IN
         IF out.raised
         THEN [run EXCEPT !.node = "failed", !.error = out.value]
         ELSE LET new == ApplyDelta(run.messages, out.value.messages)
                  r   == should_continue(AgentState(new))
              IN  [run EXCEPT !.messages = new,
                              !.appended = @ \o out.value.messages,
                              !.script = Tail(@),
                              !.node = IF r.raised THEN "failed" ELSE ConditionalEdges(r.value),
                              !.error = IF r.raised THEN r.value ELSE "none"]
    ELSE LET out == tool_node(AgentState(run.messages)) IN
         IF out.raised
         THEN [run EXCEPT !.node = "failed", !.error = out.value]
         ELSE [run EXCEPT !.messages = ApplyDelta(@, out.value.messages),
                          !.appended = @ \o out.value.messages,
                          !.node = Edge(run.node)]

\* graph.invoke(inputs, {"configurable": {"thread_id": thread_id}}) begins,
\* for a thread_id no run was made with
ThreadStart ==
    \E thread_id \in ThreadIds, input \in UserInputs, script \in Scripts :
       /\ thread_id \notin DOMAIN runs
       /\ LET run == NewRun(thread_id, input, script) IN
          /\ runs' = [t \in DOMAIN runs \cup {thread_id} |->
                         IF t = thread_id THEN run ELSE runs[t]]
          /\ checkpoints' = put_checkpoint(checkpoints, RunConfig(thread_id), run.messages)
       /\ configs' = Append(configs, thread_id)
       /\ UNCHANGED <<messages, node, error, route, delta, invocations, model_input,
                      model_output, tools_by_name, yielded, tool_list>>

\* the run of thread_id takes its next step and its state is saved
ThreadStep(thread_id) ==
    /\ thread_id \in DOMAIN runs
    /\ runs[thread_id].node \in {"agent", "tools"}
    /\ LET run == RunStep(runs[thread_id]) IN
       /\ runs' = [runs EXCEPT ![thread_id] = run]
       /\ checkpoints' = put_checkpoint(checkpoints, RunConfig(thread_id), run.messages)
    /\ UNCHANGED <<messages, node, error, route, delta, invocations, model_input,
                   model_output, tools_by_name, yielded, configs, tool_list>>

ThreadAgentStep ==
    \E thread_id \in ThreadIds :
       /\ thread_id \in DOMAIN runs
       /\ runs[thread_id].node = "agent"
       /\ ThreadStep(thread_id)

ThreadToolsStep ==
    \E thread_id \in ThreadIds :
       /\ thread_id \in DOMAIN runs
       /\ runs[thread_id].node = "tools"
       /\ ThreadStep(thread_id)

NextThreads == ThreadStart \/ ThreadAgentStep \/ ThreadToolsStep

SpecThreads == Init /\ [][NextThreads]_vars

--------------------------------------------------------------------------
\* tools_by_name = {tool.name: tool for tool in tools} on any list of tools

\* tool objects: a name and the function behind it
ToolObjects ==
    [name : {"get_weather", "search"}, func : {"get_weather", "get_forecast"}]

\* the lists of at most MaxTools tools, tools = [get_weather] among them
ToolLists == UNION { [1..k -> ToolObjects] : k \in 0..MaxTools }

\* the module before the registry is built
InitRegistry ==
    /\ messages = <<>>
    /\ node = "start"
    /\ error = "none"
    /\ route = "none"
    /\ delta = <<>>
    /\ invocations = <<>>
    /\ model_input = <<>>
    /\ model_output = NoModelOutput
    /\ tools_by_name = <<>>
    /\ yielded = <<>>
    /\ checkpoints = <<>>
    /\ configs = <<>>
    /\ runs = <<>>
    /\ tool_list \in ToolLists

\* tools_by_name = {tool.name: tool for tool in tools}
BuildToolsByName ==
    /\ node = "start"
    /\ tools_by_name' = BuildRegistry(tool_list)
    /\ node' = "tools_by_name"
    /\ UNCHANGED <<messages, error, route, delta, invocations, model_input, model_output,
                   yielded, checkpoints, configs, runs, tool_list>>

NextRegistry == BuildToolsByName

SpecRegistry == InitRegistry /\ [][NextRegistry]_vars

--------------------------------------------------------------------------

\* The asynchronous variant of the loop: the task suspends at the model
\* client's call and at each tool invocation, and the cooperative scheduler
\* may run other tasks before it resumes the task

\* outputs.append(...) putting the new message first
outputs_append_front(outputs, tool_message) == <<tool_message>> \o outputs

\* outputs.append(ToolMessage(...))
outputs_append(outputs, tool_message) == Append(outputs, tool_message)

\* the answers of the model client in the asynchronous runs: up to MaxCalls
\* calls of the weather tool, for Tokyo and San Francisco in turn
AsyncResponses ==
    { r \in ModelResponses :
        \A i \in DOMAIN r.tool_calls :
            /\ r.tool_calls[i].id = i
            /\ r.tool_calls[i].name = "get_weather"
            /\ r.tool_calls[i].args
                  = [location |-> IF i % 2 = 1 THEN "Tokyo" ELSE "San Francisco"] }

\* how many turns other tasks have had
OtherTurns == Cardinality({k \in DOMAIN invocations : invocations[k].at = 0})

AsyncInvoke ==
    /\ node = "start" /\ error = "none"
    /\ messages' = ApplyDelta(messages, <<HumanMessage("what is the weather in sf")>>)
    /\ node' = EntryPoint
    /\ UNCHANGED <<runs, tool_list, error, route, delta, invocations, model_input, model_output,
                   tools_by_name, yielded, checkpoints, configs>>

\* the agent node builds the model's input and suspends in the model call
AsyncCallModel ==
    /\ node = "agent" /\ error = "none"
    /\ NumAI(messages) < MaxSteps
    /\ model_input' = <<SystemMessage(SystemPromptText)>> \o messages
    /\ node' = "agent_await"
    /\ UNCHANGED <<runs, tool_list, messages, error, route, delta, invocations, model_output,
                   tools_by_name, yielded, checkpoints, configs>>

\* the model call returns: the agent node's delta is applied and the
\* conditional edge routes; a dispatch starts with outputs = []
AsyncModelReturns ==
    /\ node = "agent_await" /\ error = "none"
    /\ \E response \in AsyncResponses :
          LET out == call_model(AgentState(messages), response)
              new == ApplyDelta(messages, out.value.messages)
              r   == should_continue(AgentState(new))
          IN  /\ model_output' = response
              /\ messages' = new
              /\ route' = r.value
              /\ node' = ConditionalEdges(r.value)
              /\ delta' = <<>>
    /\ UNCHANGED <<runs, tool_list, error, invocations, model_input, tools_by_name,
                   yielded, checkpoints, configs>>

\* the tools node takes the next call of the list, looks its tool up and
\* suspends in the tool's invocation
AsyncToolStart ==
    /\ node = "tools" /\ error = "none"
    /\ LET i         == Len(delta) + 1
           tool_call == Last(messages).tool_calls[i]
       IN  IF tool_call.name \notin DOMAIN tools_by_name
           THEN /\ error' = "KeyError"
                /\ UNCHANGED <<node, invocations>>
           ELSE /\ invocations' = Append(invocations, [at |-> Len(messages), index |-> i])
                /\ node' = "tools_await"
                /\ UNCHANGED error
    /\ UNCHANGED <<runs, tool_list, messages, route, delta, model_input, model_output,
                   tools_by_name, yielded, checkpoints, configs>>

\* the invocation returns: its ToolMessage is appended to outputs; after the
\* last call the node returns outputs as its delta and the edge leads to
\* "agent"
AsyncToolReturns ==
    /\ node = "tools_await" /\ error = "none"
    /\ LET tool_calls  == Last(messages).tool_calls
           i           == Len(delta) + 1
           tool_call   == tool_calls[i]
           tool_result == ToolInvoke(tools_by_name[tool_call.name], tool_call.args)
           outputs     == outputs_append(delta, MakeToolMessage(tool_call, tool_result.value))
       IN  IF tool_result.raised
           THEN /\ error' = tool_result.value
                /\ UNCHANGED <<messages, node, delta>>
           ELSE /\ delta' = outputs
                /\ IF i = Len(tool_calls)
                   THEN /\ messages' = ApplyDelta(messages, outputs)
                        /\ node' = Edge("tools")
                   ELSE /\ node' = "tools"
                        /\ UNCHANGED messages
                /\ UNCHANGED error
    /\ UNCHANGED <<runs, tool_list, route, invocations, model_input, model_output,
                   tools_by_name, yielded, checkpoints, configs>>

\* while the task is suspended the scheduler runs another task, which makes
\* an invocation of its own (logged with position 0)
OtherTask ==
    /\ node \in {"agent_await", "tools_await"}
    /\ OtherTurns < MaxSlices
    /\ invocations' = Append(invocations, [at |-> 0, index |-> OtherTurns + 1])
    /\ UNCHANGED <<runs, tool_list, messages, node, error, route, delta, model_input, model_output,
                   tools_by_name, yielded, checkpoints, configs>>

NextAsync ==
    \/ AsyncInvoke
    \/ AsyncCallModel
    \/ AsyncModelReturns
    \/ AsyncToolStart
    \/ AsyncToolReturns
    \/ OtherTask

SpecAsync == Init /\ [][NextAsync]_vars

\* One round on an arbitrary Conversation State S: call_model's delta is
\* applied to S, then tool_node's delta is applied to the result

RtAgentDelta ==
    /\ node = "fn"
    /\ \E response \in ModelResponses :
          LET out == call_model(AgentState(messages), response) IN
              /\ model_input' = out.input
              /\ model_output' = response
              /\ delta' = out.value.messages
              /\ messages' = ApplyDelta(messages, out.value.messages)
    /\ node' = "round_agent"
    /\ UNCHANGED <<runs, tool_list, error, route, invocations, tools_by_name,
                   yielded, checkpoints, configs>>

RtToolDelta ==
    /\ node = "round_agent"
    /\ LET out == tool_node(AgentState(messages)) IN
          /\ invocations' = Tag(Len(messages), out.invoked)
          /\ IF out.raised
             THEN /\ error' = out.value
                  /\ UNCHANGED <<messages, delta>>
             ELSE /\ delta' = out.value.messages
                  /\ messages' = ApplyDelta(messages, out.value.messages)
                  /\ UNCHANGED error
    /\ node' = "round_tools"
    /\ tools_by_name' = tool_node_registry(tools_by_name, AgentState(messages))
    /\ UNCHANGED <<runs, tool_list, route, model_input, model_output,
                   yielded, checkpoints, configs>>

NextRt == RtAgentDelta \/ RtToolDelta

SpecRt == InitFn /\ [][NextRt]_vars

--------------------------------------------------------------------------

HasUnknownTool(tool_calls) ==
    \E i \in DOMAIN tool_calls : tool_calls[i].name \notin DOMAIN tools_by_name

\* C9 as stated: dispatching a model response with a Tool Call of an
\* unregistered name fails with the unknown-tool failure, appends no
\* tool-result message and does not go on to Agent.
C9_AsStated ==
    [][ ( /\ node = "tools" /\ error = "none"
          /\ HasUnknownTool(Last(messages).tool_calls)
          /\ invocations' # invocations \/ error' # error \/ messages' # messages )
        => /\ error' = "KeyError"
           /\ messages' = messages
           /\ node' # "agent" ]_vars

\* the first call of the list that fails: unregistered name or raising tool
FirstFailing(tool_calls) ==
    CHOOSE k \in DOMAIN tool_calls :
        /\ ~AllCallsSucceed(<<tool_calls[k]>>)
        /\ \A j \in 1..(k - 1) : AllCallsSucceed(<<tool_calls[j]>>)

\* C9: dispatching a model response with a Tool Call of an unregistered name
\* fails: with the unknown-tool failure (KeyError) unless an earlier call of
\* the message raised, and then with that call's exception. In both cases no
\* tool-result message is appended, also when other calls name registered
\* tools, the executor stays at Tools, and nothing runs after the failure.
C9_UnknownToolAborts ==
    [][ /\ ( /\ node = "tools" /\ error = "none"
             /\ HasUnknownTool(Last(messages).tool_calls)
             /\ invocations' # invocations \/ error' # error \/ messages' # messages )
           => /\ error' \in {"KeyError", "ValidationError"}
              /\ (error' = "KeyError") <=>
                    (Last(messages).tool_calls[FirstFailing(Last(messages).tool_calls)].name
                        \notin DOMAIN tools_by_name)
              /\ messages' = messages
              /\ node' = "tools"
        /\ (error # "none") => (messages' = messages /\ node' = node /\ error' = error)
      ]_vars

\* the unknown call comes second, after a call that succeeded
C9_Witness ==
    /\ node = "tools"
    /\ error = "KeyError"
    /\ Len(Last(messages).tool_calls) = 2
    /\ Last(messages).tool_calls[1].name = "get_weather"
    /\ Last(messages).tool_calls[2].name = "search"
    /\ Len(invocations) = 1

\* C10: when the first failing call k of a dispatch is a registered tool that
\* raises, the exception leaves the step: exactly the calls 1..k were invoked,
\* none after k, the Conversation State is what it was before the step, and
\* the executor does not go on.
C10_ToolExceptionPropagates ==
    [][ ( /\ node = "tools" /\ error = "none"
          /\ ~AllCallsSucceed(Last(messages).tool_calls)
          /\ Last(messages).tool_calls[FirstFailing(Last(messages).tool_calls)].name
                \in DOMAIN tools_by_name
          /\ invocations' # invocations \/ error' # error \/ messages' # messages )
        => LET k == FirstFailing(Last(messages).tool_calls) IN
           /\ error' = "ValidationError"
           /\ invocations' = invocations \o [j \in 1..k |-> [at |-> Len(messages), index |-> j]]
           /\ messages' = messages
           /\ node' = "tools" ]_vars

\* the second of two calls raised in the second iteration: the first call's
\* result is not in the Conversation State
C10_Witness ==
    /\ node = "tools"
    /\ error = "ValidationError"
    /\ Len(messages) = 4
    /\ Len(Last(messages).tool_calls) = 2
    /\ TimesInvoked(4, 1) = 1
    /\ TimesInvoked(4, 2) = 1
    /\ Last(messages).type = "ai"

\* C11: when the model client raises during an Agent Step the failure leaves
\* the step: the run ends with the model-client failure, the model is not
\* called again, no message is appended to the Conversation State, and the
\* executor goes neither to Tools nor to End.
C11_ModelFailurePropagates ==
    [][ /\ ( /\ node = "agent" /\ error = "none"
             /\ model_output'.type = "exception" )
           => /\ error' = "ModelClientFailure"
              /\ messages' = messages
              /\ delta' = delta
              /\ node' = "agent"
              /\ route' = route
              /\ invocations' = invocations
        /\ (error = "ModelClientFailure") => UNCHANGED vars
      ]_vars

\* the model client raised in the second iteration, after a tool result
C11_Witness ==
    /\ error = "ModelClientFailure"
    /\ model_output = ModelClientError
    /\ node = "agent"
    /\ Len(messages) = 3
    /\ Last(messages).type = "tool"

\* C12: a step that fails, whichever of the three kinds the failure is
\* (model client, unknown tool, tool execution), writes nothing and undoes
\* nothing: the Conversation State after it is the one before it, so the
\* messages of the completed iterations stay, in their order; results
\* gathered by the failing dispatch before the failure are not appended; and
\* no step at all shortens or reorders the Conversation State.
C12_FailureKeepsCompleted ==
    [][ /\ ( /\ node = "agent" /\ error = "none"
             /\ model_output'.type = "exception" )
           => /\ error' = "ModelClientFailure"
              /\ messages' = messages
        /\ ( /\ node = "tools" /\ error = "none"
             /\ ~AllCallsSucceed(Last(messages).tool_calls)
             /\ invocations' # invocations \/ error' # error \/ messages' # messages )
           => /\ error' \in {"KeyError", "ValidationError"}
              /\ messages' = messages
        /\ (error # "none") => (messages' = messages /\ error' = error)
        /\ IsPrefix(messages, messages')
      ]_vars

\* a dispatch failed in the second iteration, its first call having
\* succeeded: the three messages of the first iteration are still there
C12_Witness ==
    /\ error \in {"KeyError", "ValidationError"}
    /\ Len(messages) = 4
    /\ messages[1].type = "human"
    /\ messages[2].type = "ai"
    /\ messages[3].type = "tool"
    /\ messages[3].tool_call_id = messages[2].tool_calls[1].id
    /\ Len(messages[4].tool_calls) = 2
    /\ TimesInvoked(4, 1) = 1

\* C13: execution is strictly sequential. The executor is at one position at
\* a time; the tool invocations, in the order they were made, run through
\* each dispatch's calls as 1, 2, ..., call i+1 being invoked only after call
\* i returned; and a dispatch is followed by another one only after all its
\* calls returned, all its results were appended in call order, and exactly
\* one Agent Step appended its response after them.
C13_StrictlySequential ==
    /\ node \in {"start", "agent", "tools", "end"}
    /\ (invocations # <<>>) => (invocations[1].index = 1)
    /\ \A k \in 1..(Len(invocations) - 1) :
          LET a == invocations[k]
              b == invocations[k + 1]
              n == Len(messages[a.at].tool_calls)
          IN  \/ /\ b.at = a.at
                 /\ b.index = a.index + 1
              \/ /\ a.index = n
                 /\ b.index = 1
                 /\ b.at = a.at + n + 1
                 /\ \A j \in 1..n :
                       /\ messages[a.at + j].type = "tool"
                       /\ messages[a.at + j].tool_call_id = messages[a.at].tool_calls[j].id
                 /\ messages[b.at].type = "ai"

\* two dispatches of two calls each have run, one after the other
C13_Witness ==
    /\ Len(invocations) = 4
    /\ invocations[1].at = 2
    /\ invocations[2] = [at |-> 2, index |-> 2]
    /\ invocations[3].at = 5
    /\ invocations[4] = [at |-> 5, index |-> 2]

\* the content the weather tool's result has in a tool-result message, written
\* out for the two locations the model client may send
C14_ExpectedContent(args) ==
    IF args.location = "San Francisco"
    THEN "\"It's sunny in San Francisco, but you better look out if you're a Gemini \\ud83d\\ude08.\""
    ELSE "\"I am not sure what the weather is in Tokyo\""

\* C14: tool_node builds each tool-result message from its own call only: the
\* i-th message carries the name and the identifier of the i-th call and, as
\* content, the JSON text of what the named tool returns on the i-th call's
\* arguments; two calls of the same tool with different arguments each keep
\* their own identifier and their own result.
C14_ResultFromOwnCall ==
    (node = "tool_node" /\ error = "none")
        => LET tool_calls == Last(messages).tool_calls IN
           /\ Len(delta) = Len(tool_calls)
           /\ \A i \in DOMAIN tool_calls :
                 delta[i] = [type |-> "tool",
                             content |-> C14_ExpectedContent(tool_calls[i].args),
                             name |-> tool_calls[i].name,
                             tool_call_id |-> tool_calls[i].id]

\* two calls of get_weather in one message, the first for Tokyo and the
\* second for San Francisco
C14_Witness ==
    /\ node = "tool_node" /\ error = "none"
    /\ Len(delta) = 2
    /\ Last(messages).tool_calls[1].args = [location |-> "Tokyo"]
    /\ Last(messages).tool_calls[2].args = [location |-> "San Francisco"]
    /\ delta[1].tool_call_id # delta[2].tool_call_id
    /\ delta[1].content # delta[2].content

\* C15: for any Conversation State S and any model response M with Tool Calls
\* c1..cn, applying call_model's delta to S and then tool_node's delta to the
\* result (no call failing) gives a state of |S| + 1 + n messages: the first
\* |S| are S unchanged, then M, then the tool-result messages of c1..cn in
\* call order.
C15_RoundTrip ==
    (node = "round_tools" /\ error = "none")
        => LET S == Tail(model_input)
               M == model_output
               n == Len(M.tool_calls)
           IN  /\ Len(messages) = Len(S) + 1 + n
               /\ SubSeq(messages, 1, Len(S)) = S
               /\ messages[Len(S) + 1] = M
               /\ \A i \in 1..n :
                     /\ messages[Len(S) + 1 + i].type = "tool"
                     /\ messages[Len(S) + 1 + i].tool_call_id = M.tool_calls[i].id
                     /\ messages[Len(S) + 1 + i].name = M.tool_calls[i].name
                     /\ messages[Len(S) + 1 + i].content
                            = JsonDumps(get_weather(M.tool_calls[i].args.location))

\* S has two messages and ends with a tool result; M has two calls
C15_Witness ==
    /\ node = "round_tools" /\ error = "none"
    /\ Len(messages) = 5
    /\ messages[2].type = "tool"
    /\ Len(model_output.tool_calls) = 2
    /\ messages[4].content # messages[5].content

\* C16: should_continue is pure and a function of the final message only: a
\* call of it changes neither the Conversation State nor the Tool Registry
\* (nor the delta or the record of invocations), and what it gives for a
\* state, label or exception, is what it gives for every other state with
\* the same final message, whatever stands before it.
C16_PureOnLastMessage ==
    [][ (node = "fn" /\ node' = "should_continue")
        => /\ messages' = messages
           /\ tools_by_name' = tools_by_name
           /\ delta' = delta
           /\ invocations' = invocations
           /\ \A other \in FnStates :
                 (other # <<>> /\ messages # <<>> /\ Last(other) = Last(messages))
                    => LET r == should_continue(AgentState(other)) IN
                       /\ route' = (IF r.raised THEN "none" ELSE r.value)
                       /\ error' = (IF r.raised THEN r.value ELSE "none")
      ]_vars

\* "end" on a state whose earlier message carries a Tool Call and whose final
\* message carries none
C16_Witness ==
    /\ node = "should_continue"
    /\ route = "end"
    /\ Len(messages) = 2
    /\ messages[1].type = "ai"
    /\ messages[1].tool_calls # <<>>
    /\ messages[2].type = "ai"

\* C17: the Tool Registry is immutable after construction: in every state,
\* whatever steps have run, it holds exactly the one name it was built with,
\* "get_weather", and a lookup of that name gives the same capability, the
\* get_weather tool; so no step changes it.
C17_RegistryImmutable ==
    /\ DOMAIN tools_by_name = {"get_weather"}
    /\ tools_by_name["get_weather"] = [name |-> "get_weather", func |-> "get_weather"]

\* two dispatches have looked tools up, three lookups in all
C17_Witness ==
    /\ node = "agent" /\ error = "none"
    /\ Len(invocations) = 3
    /\ invocations[3].at > invocations[1].at
    /\ "get_weather" \in DOMAIN tools_by_name

\* the run so far is one of Scenario A: the human message, then a first model
\* response with one Tool Call of get_weather for San Francisco, then (after
\* its result) a second model response without Tool Calls
ScenarioA ==
    /\ error = "none"
    /\ Len(messages) >= 1
    /\ messages[1] = HumanMessage("what is the weather in sf")
    /\ Len(messages) >= 2
          => /\ Len(messages[2].tool_calls) = 1
             /\ messages[2].tool_calls[1].name = "get_weather"
             /\ messages[2].tool_calls[1].args = [location |-> "San Francisco"]
    /\ Len(messages) >= 4 => messages[4].tool_calls = <<>>

\* C18: in Scenario A the executor is at Agent with the human message alone,
\* at Tools once the first response is appended, at Agent again once the
\* tool result is appended and at End once the second response is appended;
\* the Conversation State only grows, so these are visited in this order. At
\* End the state has exactly 4 messages: human, model with one Tool Call,
\* the tool result of that call, model without Tool Calls; one tool was
\* invoked.
C18_ScenarioA ==
    ScenarioA
        => /\ <<node, Len(messages)>> \in
                 { <<"agent", 1>>, <<"tools", 2>>, <<"agent", 3>>, <<"end", 4>> }
           /\ Len(messages) >= 2 => messages[2].type = "ai"
           /\ Len(messages) >= 3
                 => /\ messages[3].type = "tool"
                    /\ messages[3].name = "get_weather"
                    /\ messages[3].tool_call_id = messages[2].tool_calls[1].id
                    /\ invocations = << [at |-> 2, index |-> 1] >>
           /\ Len(messages) >= 4 => messages[4].type = "ai"
           /\ node = "end" => route = "end"

\* Scenario A has run to End
C18_Witness ==
    /\ ScenarioA
    /\ node = "end"
    /\ Len(messages) = 4
    /\ messages[3].content
          = "\"It's sunny in San Francisco, but you better look out if you're a Gemini \\ud83d\\ude08.\""

\* a model response whose one Tool Call asks get_weather for Tokyo, a
\* location the tool does not recognise
AsksForTokyo(m) ==
    /\ m.type = "ai"
    /\ Len(m.tool_calls) = 1
    /\ m.tool_calls[1].name = "get_weather"
    /\ m.tool_calls[1].args = [location |-> "Tokyo"]

\* C19: a Tool Call of get_weather for a location it does not recognise does
\* not fail. While the call is pending the executor is at Tools without a
\* failure; once dispatched, the message after the response is the call's
\* tool-result message, its content the JSON text of "I am not sure what the
\* weather is in Tokyo", exactly one such message is appended, and the
\* executor is at Agent, whose response, if any, comes next.
C19_ScenarioB ==
    \A p \in DOMAIN messages :
        AsksForTokyo(messages[p])
            => IF p = Len(messages)
               THEN node = "tools" /\ error = "none"
               ELSE /\ messages[p + 1]
                          = [type |-> "tool",
                             content |-> "\"I am not sure what the weather is in Tokyo\"",
                             name |-> "get_weather",
                             tool_call_id |-> messages[p].tool_calls[1].id]
                    /\ (p + 1 = Len(messages)) => (node = "agent")
                    /\ (p + 2 <= Len(messages)) => (messages[p + 2].type = "ai")

\* the user asked for Tokyo, the tool answered that it is not sure, the
\* executor is back at Agent
C19_Witness ==
    /\ node = "agent" /\ error = "none"
    /\ Len(messages) = 3
    /\ messages[1] = HumanMessage("what is the weather in tokyo")
    /\ AsksForTokyo(messages[2])
    /\ TimesInvoked(2, 1) = 1

\* some model response in the Conversation State carries no Tool Calls
SomeResponseWithoutCalls ==
    \E i \in DOMAIN messages :
        messages[i].type = "ai" /\ messages[i].tool_calls = <<>>

Extension(s, t) == SubSeq(t, Len(s) + 1, Len(t))

\* C21: graph.stream yields the Conversation State after the input is
\* applied (the thread's restored state with the one human message added)
\* and after each completed step, in execution order: every yielded state is
\* a proper extension of the one yielded before it, by one model response
\* or by the tool-result messages of one dispatch; and when the run reaches
\* End the last yielded state is the final state of the run, which is what
\* the synchronous invoke returns.
C21_StreamYieldsInOrder ==
    [][ (node' = "stream" /\ configs' # configs)
        => LET restored == get_tuple(checkpoints, RunConfig(Last(configs'))) IN
           /\ Len(yielded') >= 1
           /\ IsPrefix(restored.messages, yielded'[1])
           /\ Len(yielded'[1]) = Len(restored.messages) + 1
           /\ Last(yielded'[1]).type = "human"
           /\ \A i \in 2..Len(yielded') :
                 /\ IsPrefix(yielded'[i - 1], yielded'[i])
                 /\ Len(yielded'[i]) > Len(yielded'[i - 1])
                 /\ LET added == Extension(yielded'[i - 1], yielded'[i]) IN
                    IF Last(yielded'[i - 1]).type = "ai"
                    THEN \A j \in DOMAIN added : added[j].type = "tool"
                    ELSE Len(added) = 1 /\ added[1].type = "ai"
           /\ (error' = "none") => (Last(yielded') = messages')
      ]_vars

\* a second streamed run on the same thread went through Agent, Tools, Agent
\* to End: four states were yielded, the first with the restored messages
C21_Witness ==
    /\ node = "stream" /\ error = "none"
    /\ Len(configs) = 2 /\ configs[1] = configs[2]
    /\ Len(yielded) = 4
    /\ Len(yielded[1]) >= 3
    /\ yielded[4] = messages

\* C22: in the asynchronous variant, which suspends at the model call and at
\* each tool invocation, whatever turns the scheduler gives to other tasks
\* in between, the tool-result messages of a dispatch are in the order of
\* its Tool Calls: while the dispatch runs, the j-th result gathered answers
\* the j-th call, and once it is appended the j-th message after the
\* response answers the j-th call, with that call's identifier and result.
C22_AsyncKeepsOrder ==
    /\ (node \in {"tools", "tools_await"})
          => \A j \in DOMAIN delta :
                /\ delta[j].tool_call_id = Last(messages).tool_calls[j].id
                /\ delta[j].content = C14_ExpectedContent(Last(messages).tool_calls[j].args)
    /\ \A p \in DOMAIN messages :
          (messages[p].type = "ai" /\ p < Len(messages))
             => \A j \in DOMAIN messages[p].tool_calls :
                   /\ messages[p + j].type = "tool"
                   /\ messages[p + j].tool_call_id = messages[p].tool_calls[j].id
                   /\ messages[p + j].content
                         = C14_ExpectedContent(messages[p].tool_calls[j].args)

\* another task ran between the first and the second invocation of a
\* dispatch of two calls, and the dispatch has appended its results
C22_Witness ==
    /\ node = "agent" /\ error = "none"
    /\ Len(messages) = 4
    /\ Len(messages[2].tool_calls) = 2
    /\ \E k \in 1..(Len(invocations) - 2) :
          /\ invocations[k] = [at |-> 2, index |-> 1]
          /\ invocations[k + 1].at = 0
          /\ invocations[k + 2] = [at |-> 2, index |-> 2]
    /\ messages[3].content # messages[4].content

\* C23: with the checkpointer attached, after a run with thread_id T has
\* completed, get_tuple for T finds a checkpoint whose messages are the
\* final Conversation State that run returned; for a thread_id that no run
\* has used, get_tuple finds nothing.
C23_CheckpointIsFinalState ==
    /\ (configs # <<>> /\ error = "none")
          => LET found == get_tuple(checkpoints, RunConfig(Last(configs))) IN
             /\ found.found
             /\ found.messages = messages
    /\ \A thread_id \in ThreadIds :
          (\A k \in DOMAIN configs : configs[k] # thread_id)
             => ~get_tuple(checkpoints, RunConfig(thread_id)).found

\* two completed runs on thread "2", the second through a tool dispatch;
\* thread "1" was never used
C23_Witness ==
    /\ configs = <<"2", "2">>
    /\ error = "none"
    /\ node = "invoke"
    /\ Len(messages) = 6
    /\ messages[4].type = "ai" /\ messages[5].type = "tool"
    /\ get_tuple(checkpoints, RunConfig("2")).messages = messages
    /\ ~get_tuple(checkpoints, RunConfig("1")).found

\* C24: the Tool Dispatch Step is only ever entered in a state whose final
\* message is model-authored and carries a Tool Call: whenever the executor
\* is at Tools the final message is such a message, and every tool
\* invocation made was made for a call of such a message.
C24_ToolsEnteredAfterCalls ==
    /\ (node = "tools")
          => /\ messages # <<>>
             /\ IsModelAuthored(Last(messages))
             /\ Last(messages).tool_calls # <<>>
    /\ \A k \in DOMAIN invocations :
          /\ invocations[k].at \in DOMAIN messages
          /\ IsModelAuthored(messages[invocations[k].at])
          /\ invocations[k].index \in DOMAIN messages[invocations[k].at].tool_calls

\* Tools entered a second time, on the second response
C24_Witness ==
    /\ node = "tools" /\ error = "none"
    /\ Len(messages) = 5
    /\ invocations = << [at |-> 2, index |-> 1], [at |-> 2, index |-> 2] >>
    /\ Len(messages[5].tool_calls) = 1

\* how many messages the Conversation State held when the model client was
\* called last: all of them if that call raised, else those before the
\* newest model response
SeenByModel ==
    IF error = "ModelClientFailure"
    THEN Len(messages)
    ELSE (CHOOSE p \in DOMAIN messages :
             /\ messages[p].type = "ai"
             /\ \A q \in (p + 1)..Len(messages) : messages[q].type # "ai") - 1

\* C25: at every Agent Step the sequence passed to the model client is the
\* system instruction followed by the whole Conversation State of that
\* moment in its stored order: exactly one system message, at the front, and
\* after it every message up to the step, the tool-result messages of the
\* preceding dispatch included.
C25_ModelSeesWholeState ==
    (model_input # <<>>)
        => /\ model_input[1] = SystemMessage(SystemPromptText)
           /\ \A i \in 2..Len(model_input) : model_input[i].type # "system"
           /\ Tail(model_input) = SubSeq(messages, 1, SeenByModel)
           /\ Len(model_input) = SeenByModel + 1

\* the second model call was given the system prompt, the human message,
\* the first response and both tool results of its dispatch
C25_Witness ==
    /\ node = "end"
    /\ Len(model_input) = 5
    /\ model_input[4].type = "tool"
    /\ model_input[5].type = "tool"
    /\ Len(messages) = 5

\* C26: whenever the executor is at End, the run has not failed, the final
\* message of the Conversation State is model-authored with zero Tool Calls,
\* and End is terminal: no step of the loop can be taken from it, so no
\* Agent Step or Tool Dispatch Step runs and the state stays as it is.
C26_EndIsTerminal ==
    (node = "end")
        => /\ error = "none"
           /\ messages # <<>>
           /\ IsModelAuthored(Last(messages))
           /\ Last(messages).tool_calls = <<>>
           /\ route = "end"
           /\ ~ENABLED Next

\* End reached by the first response, without any dispatch
C26_Witness ==
    /\ node = "end"
    /\ Len(messages) = 2
    /\ invocations = <<>>
    /\ messages[1] = HumanMessage("what is the weather in tokyo")

\* C27: in every run started from the declared initial state the
\* Conversation State is non-empty from the moment the input is applied, so
\* should_continue and tool_node, which run only after that, never read the
\* last message of an empty state: the IndexError of messages[-1] is
\* unreachable.
C27_NeverReadsEmptyState ==
    /\ error # "IndexError"
    /\ (node # "start") => (messages # <<>> /\ messages[1].type = "human")
    /\ (route # "none" \/ invocations # <<>>) => (Len(messages) >= 2)

\* should_continue has read the last message twice and tool_node once
C27_Witness ==
    /\ node = "tools" /\ error = "none"
    /\ route = "continue"
    /\ Len(messages) = 4
    /\ Len(invocations) = 1
    /\ messages[1] = HumanMessage("what is the weather in tokyo")

\* the Tool Calls of all model responses of the Conversation State, each as
\* the pair of its message's position and its place in the message
AllCallsOfLog ==
    UNION { { <<p, i>> : i \in DOMAIN messages[p].tool_calls } :
            p \in { q \in DOMAIN messages : messages[q].type = "ai" } }

\* C28: shape of the log. Every model response with n >= 1 Tool Calls that
\* is not the final message is followed immediately by exactly n tool-result
\* messages, and after them comes a model response or the end of the log;
\* hence whenever the executor is at the Agent Step the number of
\* tool-result messages is the number of Tool Calls of all model responses.
C28_LogShape ==
    /\ \A p \in DOMAIN messages :
          ( /\ messages[p].type = "ai"
            /\ messages[p].tool_calls # <<>>
            /\ p < Len(messages) )
             => LET n == Len(messages[p].tool_calls) IN
                /\ p + n <= Len(messages)
                /\ \A j \in 1..n : messages[p + j].type = "tool"
                /\ (p + n < Len(messages)) => (messages[p + n + 1].type = "ai")
    /\ (node = "agent")
          => Cardinality({q \in DOMAIN messages : messages[q].type = "tool"})
                = Cardinality(AllCallsOfLog)

\* at the Agent Step after dispatches of one call and then of two calls
C28_Witness ==
    /\ node = "agent" /\ error = "none"
    /\ Len(messages) = 6
    /\ Len(messages[2].tool_calls) = 1
    /\ Len(messages[4].tool_calls) = 2
    /\ Cardinality(AllCallsOfLog) = 3

\* every Tool Call of every model response so far names a bound tool
HonoursBinding ==
    \A p \in DOMAIN messages :
        messages[p].type = "ai"
            => \A i \in DOMAIN messages[p].tool_calls :
                  messages[p].tool_calls[i].name \in BoundToolNames

\* C29: the names bound to the model client are exactly the keys of the
\* Tool Registry, and in a run in which every Tool Call the model client
\* returned names a bound tool, the unknown-tool failure (KeyError) has not
\* occurred.
C29_BoundNamesNeverUnknown ==
    /\ DOMAIN tools_by_name = BoundToolNames
    /\ HonoursBinding => (error # "KeyError")

\* the model client kept to the bound tool in two responses; the second
\* dispatch failed all the same, in the tool
C29_Witness ==
    /\ HonoursBinding
    /\ error = "ValidationError"
    /\ Len(messages) = 4
    /\ Len(messages[4].tool_calls) = 2
    /\ Len(invocations) = 3

\* C30: when call k of a dispatch failed (unknown name or raising tool), the
\* tools of the calls 1..k-1 of that message were each invoked once, no call
\* after k was invoked, and yet the Conversation State ends with the
\* response itself: no tool-result message of the calls 1..k-1 was appended.
C30_EarlierCallsStayInvoked ==
    (node = "tools" /\ error \in {"KeyError", "ValidationError"})
        => LET p          == Len(messages)
               tool_calls == Last(messages).tool_calls
               k          == FirstFailing(tool_calls)
           IN  /\ IsModelAuthored(Last(messages))
               /\ \A j \in 1..(k - 1) : TimesInvoked(p, j) = 1
               /\ \A j \in (k + 1)..Len(tool_calls) : TimesInvoked(p, j) = 0
               /\ TimesInvoked(p, k) = (IF error = "KeyError" THEN 0 ELSE 1)
               /\ \A j \in 1..Len(tool_calls) : TimesAnswered(p, j) = 0

\* in the second iteration the second call named an unknown tool after the
\* first call had been invoked
C30_Witness ==
    /\ node = "tools"
    /\ error = "KeyError"
    /\ Len(messages) = 4
    /\ Len(messages[4].tool_calls) = 2
    /\ messages[4].tool_calls[2].name = "search"
    /\ invocations[Len(invocations)] = [at |-> 4, index |-> 1]

\* C31: tool_node reads Tool Calls from the final message only. A run of it
\* invokes at most one tool per Tool Call of the final message and none when
\* that message carries no call, whatever Tool Calls earlier model responses
\* of the state carry; and what it gives, delta or exception and the
\* invocations made, is what it gives on every other state with the same
\* final message.
C31_ReadsOnlyLastMessage ==
    [][ (node = "fn" /\ node' = "tool_node")
        => /\ (messages # <<>> /\ IsModelAuthored(Last(messages)))
                 => /\ Len(invocations') <= Len(Last(messages).tool_calls)
                    /\ Len(delta') <= Len(Last(messages).tool_calls)
           /\ \A other \in FnStates :
                 (other # <<>> /\ messages # <<>> /\ Last(other) = Last(messages))
                    => LET out == tool_node(AgentState(other)) IN
                       /\ delta' = (IF out.raised THEN <<>> ELSE out.value.messages)
                       /\ error' = (IF out.raised THEN out.value ELSE "none")
                       /\ invocations' = Tag(Len(messages), out.invoked)
      ]_vars

\* the earlier response carries a Tool Call, the final one carries none:
\* nothing was invoked and the delta is empty
C31_Witness ==
    /\ node = "tool_node" /\ error = "none"
    /\ Len(messages) = 2
    /\ IsModelAuthored(messages[1]) /\ messages[1].tool_calls # <<>>
    /\ IsModelAuthored(messages[2]) /\ messages[2].tool_calls = <<>>
    /\ invocations = <<>>
    /\ delta = <<>>

\* C32: runs made with different thread_ids on one checkpointer share no
\* Conversation State. However the steps of such runs interleave, the state
\* of each run, at its end and before, is its own input message followed by
\* the messages its own steps appended, and the checkpoint kept under its
\* thread_id is that state.
C32_ThreadsAreIsolated ==
    \A thread_id \in DOMAIN runs :
       /\ runs[thread_id].messages = <<runs[thread_id].input>> \o runs[thread_id].appended
       /\ LET saved == get_tuple(checkpoints, RunConfig(thread_id)) IN
          /\ saved.found
          /\ saved.messages = runs[thread_id].messages

\* both runs have ended: thread "2", started first, with a human message and
\* one response, thread "1" with another human message and a tool dispatch
C32_Witness ==
    /\ configs = <<"2", "1">>
    /\ runs["1"].node = "end" /\ runs["2"].node = "end"
    /\ Len(runs["1"].messages) = 4
    /\ Len(runs["2"].messages) = 2
    /\ runs["1"].input # runs["2"].input
    /\ checkpoints["1"] = runs["1"].messages
    /\ checkpoints["2"] = runs["2"].messages

\* the last place of a tool named n in the list ts
LastOfName(ts, n) ==
    CHOOSE i \in DOMAIN ts :
       /\ ts[i].name = n
       /\ \A j \in DOMAIN ts : ts[j].name = n => j <= i

\* C33: the Tool Registry built from a list of tools has one entry for each
\* distinct tool name of the list and no other, each entry is a tool of the
\* list with that name, and where several tools of the list share a name the
\* entry is the last of them, so that no earlier one is found by lookup. For
\* tools = [get_weather] it is the one entry get_weather.
C33_RegistryByName ==
    (node = "tools_by_name")
       => /\ DOMAIN tools_by_name = { tool_list[i].name : i \in DOMAIN tool_list }
          /\ \A n \in DOMAIN tools_by_name :
                /\ tools_by_name[n].name = n
                /\ \E i \in DOMAIN tool_list : tools_by_name[n] = tool_list[i]
          /\ \A i, j \in DOMAIN tool_list :
                (i < j /\ tool_list[i].name = tool_list[j].name)
                   => /\ tools_by_name[tool_list[i].name]
                            = tool_list[LastOfName(tool_list, tool_list[i].name)]
                      /\ (tool_list[i] # tool_list[LastOfName(tool_list, tool_list[i].name)])
                            => tools_by_name[tool_list[i].name] # tool_list[i]
          /\ (tool_list = tools)
                => /\ DOMAIN tools_by_name = {"get_weather"}
                   /\ tools_by_name["get_weather"] = tools[1]

\* two different tools named get_weather and one named search between them:
\* two entries, and get_weather finds the later tool
C33_Witness ==
    /\ node = "tools_by_name"
    /\ Len(tool_list) = 3
    /\ tool_list[1] = [name |-> "get_weather", func |-> "get_weather"]
    /\ tool_list[2].name = "search"
    /\ tool_list[3] = [name |-> "get_weather", func |-> "get_forecast"]
    /\ Cardinality(DOMAIN tools_by_name) = 2
    /\ tools_by_name["get_weather"] = tool_list[3]

==========================================================================
